---- MODULE Spec2Model ----
(***************************************************************************)
(* Model of the Ruuvi beacon scanner (src/main.go): the payload decoder    *)
(* parsePacket, one measurement cycle measure() with its scan callback,    *)
(* the scheduling loop of main() and the /metrics exposition server that   *)
(* main() starts.                                                          *)
(*                                                                         *)
(* Physical values are kept as scaled integers:                            *)
(*   temperature in 1/1000 degree C   (raw * 0.005   = raw * 5  / 1000)    *)
(*   humidity    in 1/10000 percent   (raw * 0.0025  = raw * 25 / 10000)   *)
(*   pressure    in 1/100 hPa         ((raw+50000)/100)                    *)
(***************************************************************************)
EXTENDS Integers, Sequences, FiniteSets, TLC

VARIABLES
    mainPc,              \* position of main(): "enable", "initial", "loop", "exited"
    cyclePc,             \* position of measure(): "idle", "scan", "parse", "hum",
                         \* "pres", "ret"; "returned" while main handles the result
    buf,                 \* measure's local buf (make([]byte, 32))
    stopScanErr,         \* measure's local stopScanErr (FALSE = nil)
    err,                 \* the error measure() returns
    t, h, p,             \* parsePacket's locals t, h, p (results of ParseInt)
    tempGauge, humidityGauge, pressureGauge,
    numMeasurements, numMeasurementsErrs,
    measureTime,         \* number of observations of the histogram
    measureEvery,        \* the flag -measure_every, in seconds
    tickPending,         \* ticker.C holds a tick (channel of capacity 1)
    stopRequested,       \* the adapter: a StopScan of the running scan returned nil
    reading,             \* the exposition server: per metric, the values a
                         \* read for the response being gathered can return;
                         \* NoScrape when no response is being gathered
    started,             \* history: calls of measure()
    viaTick,             \* history: calls of measure() made by the ticker loop
    inProgress,          \* history: calls of measure() that have not returned
    cyclesOK,            \* history: calls of measure() that returned nil
    cyclesFailed,        \* history: calls of measure() that returned an error
    firstErr,            \* history: what the initial measure() returned
    gaugesAtStart,       \* history: the gauges when the running cycle began
    stopFailed,          \* history: a StopScan call of the running cycle failed
    captured,            \* history: <<length>> of the payload the callback
                         \* copied last in the running cycle, or <<>>
    scrape,              \* the response of GET /metrics when the latest step
                         \* served one, NoScrape otherwise
    delivered            \* the scan result handled when the latest step was
                         \* the scan callback, NoDevice otherwise

vars == <<mainPc, cyclePc, buf, stopScanErr, err, t, h, p,
          tempGauge, humidityGauge, pressureGauge,
          numMeasurements, numMeasurementsErrs, measureTime, measureEvery,
          tickPending, stopRequested, reading,
          started, viaTick, inProgress, cyclesOK, cyclesFailed,
          firstErr, gaugesAtStart, stopFailed, captured,
          scrape, delivered>>

locals == <<buf, stopScanErr, err, t, h, p>>
gaugeVars == <<tempGauge, humidityGauge, pressureGauge>>
counterVars == <<numMeasurements, numMeasurementsErrs>>

------------------------------------------------------------------------------
(* Bounds and program constants *)

MaxCycles == 2

BufLen == 32
FormatV5 == 5
RuuviCompanyID == 1177

ErrNil == "nil"
ErrScan == "scanning"
ErrStopScan == "stopping scan"
ErrFormat == "parsing packet: invalid format"
ErrConvert == "parsing packet: could not convert"
NotYet == "none"
NoScrape == <<>>
NoDevice == <<>>

------------------------------------------------------------------------------
(* Inputs: advertisements the adapter can deliver *)

Hi(v) == v \div 256
Lo(v) == v % 256

\* a 33-byte manufacturer payload: the header byte, the three fields and 0xAA
\* filler
FullPayload(hd, f) ==
    <<hd, Hi(f[1]), Lo(f[1]), Hi(f[2]), Lo(f[2]), Hi(f[3]), Lo(f[3])>>
        \o [i \in 1..26 |-> 170]

\* payloads with the fields 0x01F4 0x2710 0xC350 (truncated, complete), with
\* the fields 0xFFFF 0x8000 0x7FFF, and one of format 3 that is longer than
\* the buffer
Payloads ==
    { SubSeq(FullPayload(FormatV5, <<500, 10000, 50000>>), 1, n) :
          n \in {3, 7} }
      \cup { SubSeq(FullPayload(FormatV5, <<65535, 32768, 32767>>), 1, 7) }
      \cup { FullPayload(3, <<500, 10000, 50000>>) }

\* values of the flag -measure_every in seconds: the default of 5 minutes,
\* zero and a negative duration
Intervals == {300, 0, -1}

RuuviName == <<"R", "u", "u", "v", "i", " ", "1", "A">>
LowerName == <<"r", "u", "u", "v", "i">>
Names == {RuuviName, LowerName}
Marker == <<"R", "u", "u", "v", "i">>

\* manufacturer data of another vendor (company identifier 76)
OtherData == (76 :> <<5, 1, 2, 3, 4, 5, 6>>)

ManufacturerDatas ==
    {<<>>} \cup {OtherData}
       \cup {(RuuviCompanyID :> pl) : pl \in Payloads}
       \cup {(RuuviCompanyID :> <<5, 1, 244, 39, 16, 195, 80>>) @@ OtherData}

Devices == [name : Names, md : ManufacturerDatas]

------------------------------------------------------------------------------
(* Library functions used by the program *)

\* strings.Contains(s, substr)
Contains(s, substr) ==
    \E i \in 0..(Len(s) - Len(substr)) :
        \A j \in 1..Len(substr) : s[i + j] = substr[j]

\* copy(dst, src): copies min(len(dst), len(src)) elements
Copy(dst, src) ==
    [i \in 1..Len(dst) |-> IF i <= Len(src) THEN src[i] ELSE dst[i]]

\* buffer, ok := md[k]: the nil (empty) slice when the key is absent
MapGet(md, k) == IF k \in DOMAIN md THEN md[k] ELSE <<>>

HexDigits == <<"0", "1", "2", "3", "4", "5", "6", "7",
               "8", "9", "a", "b", "c", "d", "e", "f">>
UpperHexDigits == <<"0", "1", "2", "3", "4", "5", "6", "7",
                    "8", "9", "A", "B", "C", "D", "E", "F">>

\* fmt.Sprintf("%x", bytes): two lower-case hex digits per byte
RECURSIVE Sprintfx(_)
Sprintfx(bytes) ==
    IF bytes = <<>> THEN <<>>
    ELSE <<HexDigits[(Head(bytes) \div 16) + 1], HexDigits[(Head(bytes) % 16) + 1]>>
            \o Sprintfx(Tail(bytes))

IsHexDigit(c) ==
    \E i \in 1..16 : HexDigits[i] = c \/ UpperHexDigits[i] = c

DigitVal(c) ==
    (CHOOSE i \in 1..16 : HexDigits[i] = c \/ UpperHexDigits[i] = c) - 1

RECURSIVE Accumulate(_, _)
Accumulate(s, acc) ==
    IF s = <<>> THEN acc ELSE Accumulate(Tail(s), acc * 16 + DigitVal(Head(s)))

\* strconv.ParseInt(s, 16, 64) with a range check at 2^15 instead of 2^63
ParseInt16(s) ==
    IF s = <<>> \/ \E i \in 1..Len(s) : ~IsHexDigit(s[i])
    THEN [val |-> 0, ok |-> FALSE]
    ELSE IF Accumulate(s, 0) > 32767
         THEN [val |-> 32767, ok |-> FALSE]
         ELSE [val |-> Accumulate(s, 0), ok |-> TRUE]

\* strconv.ParseInt(s, 16, 64) for unsigned digit strings of at most 15 hex
\* digits, which always fit 63 bits: a syntax error on an empty string or a
\* non-digit, the value of the digits otherwise.
ParseInt(s) ==
    IF s = <<>> \/ \E i \in 1..Len(s) : ~IsHexDigit(s[i])
    THEN [val |-> 0, ok |-> FALSE]
    ELSE [val |-> Accumulate(s, 0), ok |-> TRUE]

------------------------------------------------------------------------------
(* parsePacket *)

\* parsePacket without the format check
SupportedFormatAny(b) == TRUE

\* buf[0] != 5 checked against format 3 instead
SupportedFormatV3(b) == b[1] = 3

\* the guard of parsePacket: buf[0] != 5 is an error
SupportedFormat(b) == b[1] = FormatV5

\* buf[i:j] of Go (0-based, j exclusive)
Slice(b, i, j) == SubSeq(b, i + 1, j)

\* temperature with the humidity factor
TemperatureWrongFactor(raw) == raw * 25

\* float64(t) * 0.005, in 1/1000 degree
Temperature(raw) == raw * 5

\* humidity with the temperature factor
HumidityWrongFactor(raw) == raw * 5

\* float64(h) * 0.0025, in 1/10000 percent
Humidity(raw) == raw * 25

\* (float64(p) + 50000) / 100, in 1/100 hPa
Pressure(raw) == raw + 50000

------------------------------------------------------------------------------
(* main's control *)

\* main calling measure() in a goroutine, without waiting for its return
CanStartGo(mpc, cpc, tick) ==
    \/ mpc = "initial"
    \/ mpc = "loop" /\ tick

\* main calls measure() once after Enable, then once per received tick; the
\* calls are synchronous, so none is made while a cycle is running
CanStart(mpc, cpc, tick) ==
    /\ cpc = "idle"
    /\ \/ mpc = "initial"
       \/ mpc = "loop" /\ tick

\* main treating the initial failure like a later one
AfterMeasureNoFatal(mpc, e, every) ==
    IF mpc = "initial" /\ every <= 0 THEN "exited" ELSE "loop"

\* main calling log.Fatal on every failure
AfterMeasureAlwaysFatal(mpc, e, every) ==
    IF e # ErrNil \/ (mpc = "initial" /\ every <= 0) THEN "exited" ELSE "loop"

\* what main does with measure()'s result: after the initial measurement
\* log.Fatal on an error, else time.NewTicker(*measureEvery), which panics
\* when the interval is not positive; fmt.Println in the ticker loop
AfterMeasure(mpc, e, every) ==
    IF mpc = "initial" /\ (e # ErrNil \/ every <= 0) THEN "exited" ELSE "loop"

\* stopScanErr = adapter.StopScan(): a later successful stop clears the error
StopErrLatest(old, stopOk) == ~stopOk

\* the callback's handling of adapter.StopScan(): stopScanErr is assigned only
\* when the stop fails and is never cleared
StopErr(old, stopOk) == IF stopOk THEN old ELSE TRUE

\* measure() after adapter.Scan returned nil: return stopScanErr when it is
\* set, call parsePacket otherwise
AfterScan(stopErr) ==
    IF stopErr THEN [pc |-> "ret", err |-> ErrStopScan]
               ELSE [pc |-> "parse", err |-> ErrNil]

\* Observe placed after the last statement of measure() instead of deferred
ObserveOnSuccess(n, e) == IF e = ErrNil THEN n + 1 ELSE n

\* the deferred measureTime.Observe: one more observation, whatever measure()
\* returns
Observe(n, e) == n + 1

\* a registry that exposes a gauge only once it holds a value other than 0
GatherSetOnly(nm, ne, tg, hg, pg, mt) ==
    [m \in {"measurement_count", "measurement_err_count",
             "measurement_duration_count"}
            \cup (IF tg # 0 THEN {"temperature"} ELSE {})
            \cup (IF hg # 0 THEN {"humidity"} ELSE {})
            \cup (IF pg # 0 THEN {"pressure"} ELSE {}) |->
        CASE m = "measurement_count" -> nm
          [] m = "measurement_err_count" -> ne
          [] m = "temperature" -> tg
          [] m = "humidity" -> hg
          [] m = "pressure" -> pg
          [] m = "measurement_duration_count" -> mt]

\* promhttp.Handler() over the default registry: every metric registered by
\* MustRegister is exposed with its current value, a gauge never Set with 0
Gather(nm, ne, tg, hg, pg, mt) ==
    [m \in {"measurement_count", "measurement_err_count", "temperature",
             "humidity", "pressure", "measurement_duration_count"} |->
        CASE m = "measurement_count" -> nm
          [] m = "measurement_err_count" -> ne
          [] m = "temperature" -> tg
          [] m = "humidity" -> hg
          [] m = "pressure" -> pg
          [] m = "measurement_duration_count" -> mt]

Zeros == [i \in 1..BufLen |-> 0]
Gauges == <<tempGauge, humidityGauge, pressureGauge>>

------------------------------------------------------------------------------
Init ==
    /\ mainPc = "enable"
    /\ measureEvery \in Intervals
    /\ cyclePc = "idle"
    /\ buf = Zeros
    /\ stopScanErr = FALSE
    /\ err = ErrNil
    /\ t = 0 /\ h = 0 /\ p = 0
    /\ tempGauge = 0 /\ humidityGauge = 0 /\ pressureGauge = 0
    /\ numMeasurements = 0 /\ numMeasurementsErrs = 0
    /\ measureTime = 0
    /\ tickPending = FALSE
    /\ stopRequested = FALSE
    /\ reading = NoScrape
    /\ started = 0 /\ viaTick = 0 /\ inProgress = 0
    /\ cyclesOK = 0 /\ cyclesFailed = 0
    /\ firstErr = NotYet
    /\ gaugesAtStart = <<0, 0, 0>>
    /\ stopFailed = FALSE
    /\ captured = <<>>
    /\ scrape = NoScrape
    /\ delivered = NoDevice

\* the step served no scrape and handled no scan result
Quiet == scrape' = NoScrape /\ delivered' = NoDevice

\* a step of main's goroutine stores v in metric m while the exposition
\* server may be gathering a response: the gathering can still read the old
\* value of m or the new one
Stores(m, v) ==
    reading' = IF reading = NoScrape \/ m \notin DOMAIN reading
               THEN reading
               ELSE [reading EXCEPT ![m] = @ \cup {v}]

history == <<started, viaTick, inProgress, cyclesOK, cyclesFailed,
             firstErr, gaugesAtStart, stopFailed, captured>>

\* adapter.Enable() in main: log.Fatal on error
Enable ==
    /\ UNCHANGED measureEvery
    /\ Quiet /\ UNCHANGED reading
    /\ mainPc = "enable"
    /\ \E ok \in BOOLEAN : mainPc' = IF ok THEN "initial" ELSE "exited"
    /\ UNCHANGED <<cyclePc, locals, gaugeVars, counterVars, measureTime,
                   tickPending, stopRequested, history>>

\* the ticker created after the initial measurement sends on ticker.C; a tick
\* is dropped when the channel already holds one
Tick ==
    /\ UNCHANGED measureEvery
    /\ Quiet /\ UNCHANGED reading
    /\ mainPc = "loop"
    /\ tickPending' = TRUE
    /\ UNCHANGED <<mainPc, cyclePc, locals, gaugeVars, counterVars,
                   measureTime, stopRequested, history>>

\* measure() up to the call of adapter.Scan, which either starts the scan or
\* returns an error at once
MeasureBegin ==
    /\ UNCHANGED measureEvery
    /\ Quiet /\ UNCHANGED reading
    /\ CanStart(mainPc, cyclePc, tickPending)
    /\ started < MaxCycles
    /\ tickPending' = IF mainPc = "loop" THEN FALSE ELSE tickPending
    /\ buf' = Zeros
    /\ stopScanErr' = FALSE
    /\ t' = 0 /\ h' = 0 /\ p' = 0
    /\ \E ok \in BOOLEAN :
          IF ok THEN cyclePc' = "scan" /\ err' = ErrNil
                ELSE cyclePc' = "ret" /\ err' = ErrScan
    /\ stopRequested' = FALSE
    /\ started' = started + 1
    /\ viaTick' = IF mainPc = "loop" THEN viaTick + 1 ELSE viaTick
    /\ inProgress' = inProgress + 1
    /\ gaugesAtStart' = Gauges
    /\ captured' = <<>>
    /\ stopFailed' = FALSE
    /\ UNCHANGED <<mainPc, gaugeVars, counterVars, measureTime,
                   cyclesOK, cyclesFailed, firstErr>>

\* the callback without the manufacturer data check
QualifiesNameOnly(device) == Contains(device.name, Marker)

\* the callback without the name check
QualifiesDataOnly(device) == RuuviCompanyID \in DOMAIN device.md

\* a device qualifies when its name contains "Ruuvi" and its manufacturer data
\* has an entry under 1177
Qualifies(device) ==
    /\ Contains(device.name, Marker)
    /\ RuuviCompanyID \in DOMAIN device.md

\* the callback passed to adapter.Scan, called by the adapter for one scan
\* result while adapter.Scan has not returned, also after a StopScan: the
\* filter, the copy into buf and the call of adapter.StopScan.  The callback
\* returns to the adapter; measure() stays in adapter.Scan.
ScanCallback ==
    /\ UNCHANGED measureEvery
    /\ cyclePc = "scan"
    /\ scrape' = NoScrape
    /\ UNCHANGED reading
    /\ \E device \in Devices :
          LET seen == [name |-> device.name,
                       hasData |-> RuuviCompanyID \in DOMAIN device.md] IN
          IF ~Qualifies(device)
          THEN /\ delivered' = [seen |-> seen, stop |-> "none"]
               /\ UNCHANGED <<locals, captured, stopFailed, stopRequested>>
          ELSE LET buffer == MapGet(device.md, RuuviCompanyID) IN
               /\ buf' = Copy(buf, buffer)
               /\ captured' = <<Len(buffer)>>
               /\ \E stopOk \in BOOLEAN :
                     /\ delivered' = [seen |-> seen,
                                      stop |-> IF stopOk THEN "ok" ELSE "failed"]
                     /\ stopFailed' = (stopFailed \/ ~stopOk)
                     /\ stopScanErr' = StopErr(stopScanErr, stopOk)
                     /\ stopRequested' = (stopRequested \/ stopOk)
               /\ UNCHANGED <<err, t, h, p>>
    /\ UNCHANGED <<mainPc, cyclePc, gaugeVars, counterVars, measureTime,
                   tickPending, started, viaTick, inProgress, cyclesOK,
                   cyclesFailed, firstErr, gaugesAtStart>>

\* adapter.Scan returns nil after a StopScan succeeded; measure() goes on with
\* the check of stopScanErr and the call of parsePacket
ScanReturn ==
    /\ UNCHANGED measureEvery
    /\ Quiet /\ UNCHANGED reading
    /\ cyclePc = "scan"
    /\ stopRequested
    /\ cyclePc' = AfterScan(stopScanErr).pc
    /\ err' = AfterScan(stopScanErr).err
    /\ UNCHANGED <<mainPc, buf, stopScanErr, t, h, p, gaugeVars, counterVars,
                   measureTime, tickPending, stopRequested, history>>

\* adapter.Scan returns an error, whether or not a StopScan succeeded before
ScanError ==
    /\ UNCHANGED measureEvery
    /\ Quiet /\ UNCHANGED reading
    /\ cyclePc = "scan"
    /\ cyclePc' = "ret"
    /\ err' = ErrScan
    /\ UNCHANGED <<mainPc, buf, stopScanErr, t, h, p, gaugeVars, counterVars,
                   measureTime, tickPending, stopRequested, history>>

\* parsePacket: the format check, the temperature field and tempGauge.Set
ParseTemperature ==
    /\ UNCHANGED measureEvery
    /\ Quiet
    /\ cyclePc = "parse"
    /\ IF ~SupportedFormat(buf)
       THEN /\ cyclePc' = "ret" /\ err' = ErrFormat
            /\ UNCHANGED reading
            /\ UNCHANGED <<t, tempGauge>>
       ELSE LET r == ParseInt(Sprintfx(Slice(buf, 1, 3))) IN
            IF ~r.ok
            THEN /\ cyclePc' = "ret" /\ err' = ErrConvert
                 /\ UNCHANGED reading
                 /\ UNCHANGED <<t, tempGauge>>
            ELSE /\ t' = r.val
                 /\ tempGauge' = Temperature(r.val)
                 /\ Stores("temperature", tempGauge')
                 /\ cyclePc' = "hum"
                 /\ UNCHANGED err
    /\ UNCHANGED <<mainPc, buf, stopScanErr, h, p, humidityGauge, pressureGauge,
                   counterVars, measureTime, tickPending, stopRequested,
                   history>>

\* parsePacket: the humidity field and humidityGauge.Set
ParseHumidity ==
    /\ UNCHANGED measureEvery
    /\ Quiet
    /\ cyclePc = "hum"
    /\ LET r == ParseInt(Sprintfx(Slice(buf, 3, 5))) IN
       IF ~r.ok
       THEN /\ cyclePc' = "ret" /\ err' = ErrConvert
            /\ UNCHANGED reading
            /\ UNCHANGED <<h, humidityGauge>>
       ELSE /\ h' = r.val
            /\ humidityGauge' = Humidity(r.val)
            /\ Stores("humidity", humidityGauge')
            /\ cyclePc' = "pres"
            /\ UNCHANGED err
    /\ UNCHANGED <<mainPc, buf, stopScanErr, t, p, tempGauge, pressureGauge,
                   counterVars, measureTime, tickPending, stopRequested,
                   history>>

\* parsePacket: the pressure field, pressureGauge.Set and return nil
ParsePressure ==
    /\ UNCHANGED measureEvery
    /\ Quiet
    /\ cyclePc = "pres"
    /\ LET r == ParseInt(Sprintfx(Slice(buf, 5, 7))) IN
       IF ~r.ok
       THEN /\ cyclePc' = "ret" /\ err' = ErrConvert
            /\ UNCHANGED reading
            /\ UNCHANGED <<p, pressureGauge>>
       ELSE /\ p' = r.val
            /\ pressureGauge' = Pressure(r.val)
            /\ Stores("pressure", pressureGauge')
            /\ cyclePc' = "ret"
            /\ err' = ErrNil
    /\ UNCHANGED <<mainPc, buf, stopScanErr, t, h, tempGauge, humidityGauge,
                   counterVars, measureTime, tickPending, stopRequested,
                   history>>

\* measure() returns: the deferred measureTime.Observe runs and the locals
\* die; err is the value handed to main.  measure() does not touch
\* numMeasurements or numMeasurementsErrs.
MeasureReturn ==
    /\ UNCHANGED measureEvery
    /\ Quiet
    /\ cyclePc = "ret"
    /\ measureTime' = Observe(measureTime, err)
    /\ Stores("measurement_duration_count", measureTime')
    /\ cyclePc' = "returned"
    /\ buf' = Zeros /\ stopScanErr' = FALSE
    /\ t' = 0 /\ h' = 0 /\ p' = 0
    /\ stopRequested' = FALSE
    /\ inProgress' = inProgress - 1
    /\ cyclesOK' = IF err = ErrNil THEN cyclesOK + 1 ELSE cyclesOK
    /\ cyclesFailed' = IF err # ErrNil THEN cyclesFailed + 1 ELSE cyclesFailed
    /\ gaugesAtStart' = Gauges
    /\ captured' = <<>>
    /\ stopFailed' = FALSE
    /\ UNCHANGED <<mainPc, err, gaugeVars, counterVars, tickPending, started,
                   viaTick, firstErr>>

\* main handles what measure() returned: after the initial measurement
\* log.Fatal on an error or the panic of time.NewTicker for an interval that
\* is not positive, either of which ends the process and its exposition
\* server; fmt.Println in the ticker loop.  main does not touch numMeasurements or
\* numMeasurementsErrs.
MainHandle ==
    /\ UNCHANGED measureEvery
    /\ Quiet
    /\ cyclePc = "returned"
    /\ mainPc' = AfterMeasure(mainPc, err, measureEvery)
    /\ cyclePc' = "idle"
    /\ err' = ErrNil
    /\ firstErr' = IF mainPc = "initial" THEN err ELSE firstErr
    /\ reading' = IF mainPc' = "exited" THEN NoScrape ELSE reading
    /\ UNCHANGED <<buf, stopScanErr, t, h, p, gaugeVars, counterVars,
                   measureTime, tickPending, stopRequested, started, viaTick,
                   inProgress, cyclesOK, cyclesFailed, gaugesAtStart,
                   stopFailed, captured>>

\* the exposition server started by go http.ListenAndServe takes a
\* GET /metrics and starts gathering: from now on the registry reads every
\* registered metric once, each at a moment of its own, while main's goroutine
\* runs on.  reading keeps, per metric, the values a read can return: the
\* value at this moment and every value stored since.  The server runs from
\* its start in main until the process exits.
ScrapeBegin ==
    /\ UNCHANGED measureEvery
    /\ mainPc \in {"initial", "loop"}
    /\ reading = NoScrape
    /\ Quiet
    /\ LET now == Gather(numMeasurements, numMeasurementsErrs, tempGauge,
                         humidityGauge, pressureGauge, measureTime) IN
       reading' = [m \in DOMAIN now |-> {now[m]}]
    /\ UNCHANGED <<mainPc, cyclePc, locals, gaugeVars, counterVars,
                   measureTime, tickPending, stopRequested, history>>

\* the handler writes the response: every metric with the value its read
\* returned, one of the values the metric held while the response was
\* gathered, chosen independently of the other metrics
ScrapeServe ==
    /\ UNCHANGED measureEvery
    /\ mainPc \in {"initial", "loop"}
    /\ reading # NoScrape
    /\ LET Held(m) == IF m \in DOMAIN reading THEN reading[m] ELSE {0} IN
       \E nm \in Held("measurement_count"),
          ne \in Held("measurement_err_count"),
          tg \in Held("temperature"),
          hg \in Held("humidity"),
          pg \in Held("pressure"),
          mt \in Held("measurement_duration_count") :
           scrape' = [m \in DOMAIN reading |->
                         CASE m = "measurement_count" -> nm
                           [] m = "measurement_err_count" -> ne
                           [] m = "temperature" -> tg
                           [] m = "humidity" -> hg
                           [] m = "pressure" -> pg
                           [] m = "measurement_duration_count" -> mt]
    /\ reading' = NoScrape
    /\ delivered' = NoDevice
    /\ UNCHANGED <<mainPc, cyclePc, locals, gaugeVars, counterVars,
                   measureTime, tickPending, stopRequested, history>>

Next ==
    \/ Enable
    \/ ScrapeBegin
    \/ ScrapeServe
    \/ Tick
    \/ MeasureBegin
    \/ ScanCallback
    \/ ScanReturn
    \/ ScanError
    \/ ParseTemperature
    \/ ParseHumidity
    \/ ParsePressure
    \/ MeasureReturn
    \/ MainHandle

Spec == Init /\ [][Next]_vars

TypeOK ==
    /\ mainPc \in {"enable", "initial", "loop", "exited"}
    /\ cyclePc \in {"idle", "scan", "parse", "hum", "pres", "ret", "returned"}
    /\ Len(buf) = BufLen
    /\ started \in 0..MaxCycles

------------------------------------------------------------------------------
(* Properties *)

\* the unsigned big-endian value of the two bytes buf[i], buf[i+1] (0-based)
U16(b, i) == b[i + 1] * 256 + b[i + 2]

\* the two's-complement reading of a 16-bit value
Signed16(v) == IF v >= 32768 THEN v - 65536 ELSE v

Returning == cyclePc = "ret"
Failing == cyclePc = "ret" /\ err # ErrNil
Succeeding == cyclePc = "ret" /\ err = ErrNil
\* measure() got as far as calling parsePacket
DecoderCalled ==
    \/ cyclePc \in {"hum", "pres"}
    \/ cyclePc = "ret" /\ err \notin {ErrScan, ErrStopScan}

\* C1: the failed-measurements counter equals the number of cycles that
\* returned an error (every failed cycle adds exactly one).
C1_FailuresCounted == numMeasurementsErrs = cyclesFailed

\* C2: the successful-measurements counter equals the number of cycles that
\* returned nil (every successful cycle adds exactly one).
C2_SuccessesCounted == numMeasurements = cyclesOK

\* C3: a cycle that returns an error (scan start, scan stop, unsupported
\* format, field conversion) returns with the three gauges as they were when
\* the cycle began.
C3_FailedCycleKeepsGauges == Failing => Gauges = gaugesAtStart

\* C3 witness: a cycle fails on the format check while the gauges hold the
\* reading of an earlier successful cycle.
C3_Witness ==
    /\ Failing /\ err = ErrFormat
    /\ cyclesOK >= 1
    /\ Gauges # <<0, 0, 0>>

\* C4: each extracted field is the signed 16-bit reading of its two bytes
\* (value - 65536 when the top bit is set).
C4_FieldsSigned ==
    /\ cyclePc \in {"hum", "pres"} \/ Succeeding => t = Signed16(U16(buf, 1))
    /\ cyclePc = "pres" \/ Succeeding => h = Signed16(U16(buf, 3))
    /\ Succeeding => p = Signed16(U16(buf, 5))

\* C5: a cycle whose captured payload starts with 5 and is shorter than 7
\* bytes returns an error and publishes no measurement.
C5_TruncatedPayloadFails ==
    (/\ Returning
     /\ captured # <<>>
     /\ captured[1] \in 1..6
     /\ buf[1] = FormatV5)
        => err # ErrNil /\ Gauges = gaugesAtStart

\* C6: when the decoder is called on a buffer whose byte 0 is not 5 it fails
\* with the format error before extracting any field or writing any gauge.
C6_UnsupportedFormat ==
    (DecoderCalled /\ buf[1] # FormatV5)
        => /\ cyclePc = "ret" /\ err = ErrFormat
           /\ t = 0 /\ h = 0 /\ p = 0
           /\ Gauges = gaugesAtStart

\* C6 witness: the decoder has rejected a captured buffer of format 3.
C6_Witness ==
    /\ cyclePc = "ret" /\ err = ErrFormat
    /\ buf[1] = 3
    /\ captured # <<>>

\* C7: a successful decode publishes temperature = raw1 * 0.005,
\* humidity = raw2 * 0.0025, pressure = (raw3 + 50000) / 100 (in scaled
\* integers), and 05 01 F4 27 10 C3 50 gives 2.50 C, 25.00 %, 1000.00 hPa.
C7_Scaling ==
    Succeeding =>
        /\ tempGauge = 5 * U16(buf, 1)
        /\ humidityGauge = 25 * U16(buf, 3)
        /\ pressureGauge = U16(buf, 5) + 50000
        /\ SubSeq(buf, 1, 7) = <<5, 1, 244, 39, 16, 195, 80>>
              => /\ t = 500 /\ h = 10000 /\ p = 50000
                 /\ Gauges = <<2500, 250000, 100000>>

\* C7 witness: the buffer 05 01 F4 27 10 C3 50 has been decoded.
C7_Witness ==
    /\ Succeeding
    /\ SubSeq(buf, 1, 7) = <<5, 1, 244, 39, 16, 195, 80>>

\* C8: exactly one cycle runs at startup, without a tick; the ticker loop is
\* entered only after it succeeded, and after its failure the process has
\* exited with no further cycle.
C8_InitialCycle ==
    /\ mainPc = "enable" => started = 0
    /\ mainPc = "initial" =>
          started <= 1 /\ viaTick = 0 /\ ~tickPending /\ firstErr = NotYet
    /\ mainPc = "loop" => firstErr = ErrNil /\ started = viaTick + 1
    /\ firstErr \notin {NotYet, ErrNil} =>
          mainPc = "exited" /\ started = 1 /\ viaTick = 0 /\ cyclePc = "idle"

\* C8 witness: the initial cycle failed and the process exited after it.
C8_Witness ==
    /\ mainPc = "exited"
    /\ firstErr = ErrFormat
    /\ started = 1 /\ measureTime = 1

\* C9 as stated: once a cycle has succeeded the process never exits: main is
\* in the ticker loop or about to enter it; it has exited only after an Enable
\* failure (no cycle at all) or a failed initial cycle.
C9_OnlyTwoFatalConditions ==
    /\ cyclesOK >= 1 =>
          \/ mainPc = "loop"
          \/ mainPc = "initial" /\ cyclePc = "returned" /\ err = ErrNil
    /\ mainPc = "exited" =>
          \/ started = 0 /\ cyclesFailed = 0 /\ firstErr = NotYet
          \/ started = 1 /\ cyclesFailed = 1 /\ cyclesOK = 0

\* C9 amended: once the ticker loop is entered the process never exits,
\* whatever later cycles return; it has exited only after an Enable failure
\* (no cycle at all), after a failed initial cycle, or after a successful
\* initial cycle when the interval is not positive.
C9_LaterFailuresNotFatal ==
    /\ (cyclesOK >= 1 /\ measureEvery > 0) =>
          \/ mainPc = "loop"
          \/ mainPc = "initial" /\ cyclePc = "returned" /\ err = ErrNil
    /\ mainPc = "loop" => measureEvery > 0
    /\ mainPc = "exited" =>
          \/ started = 0 /\ cyclesFailed = 0 /\ firstErr = NotYet
          \/ started = 1 /\ cyclesFailed = 1 /\ cyclesOK = 0
          \/ /\ started = 1 /\ cyclesFailed = 0 /\ cyclesOK = 1
             /\ firstErr = ErrNil /\ measureEvery <= 0

\* C9 witness: a cycle of the ticker loop failed, main has reported it and is
\* back in the loop where the next tick is waiting.
C9_Witness ==
    /\ mainPc = "loop"
    /\ cyclesOK >= 1 /\ cyclesFailed >= 1
    /\ cyclePc = "idle"
    /\ tickPending

\* C10: at most one cycle is in progress, and every cycle started before the
\* running one has returned.
C10_NoOverlap ==
    /\ inProgress \in {0, 1}
    /\ inProgress = 1 <=> cyclePc \notin {"idle", "returned"}
    /\ started = cyclesOK + cyclesFailed + inProgress

\* C10 witness: a tick is waiting in the channel while a cycle started by an
\* earlier tick is still scanning (the cycle outlasts the interval).
C10_Witness ==
    /\ cyclePc = "scan"
    /\ viaTick >= 1
    /\ tickPending
    /\ inProgress = 1

GaugeNames == {"temperature", "humidity", "pressure"}
Scraped == scrape # NoScrape
ScrapedGauges == <<scrape["temperature"], scrape["humidity"], scrape["pressure"]>>

\* C11: the duration histogram holds one observation per completed cycle,
\* successful or failed, the failed initial cycle included.
C11_DurationPerCycle == measureTime = cyclesOK + cyclesFailed

\* C11 witness: the initial cycle failed and its duration was observed; a
\* scrape served before main ends the process reports one observation.
C11_Witness ==
    /\ Scraped
    /\ mainPc = "initial" /\ cyclePc = "returned" /\ err # ErrNil
    /\ scrape["measurement_duration_count"] = 1

\* C12 as stated: a scrape served before any cycle has succeeded carries no
\* temperature, humidity or pressure sample.
C12_GaugesAbsentBeforeSuccess ==
    (Scraped /\ cyclesOK = 0 /\ ~Succeeding)
        => DOMAIN scrape \cap GaugeNames = {}

\* C12 amended: every scrape carries the three gauges, and one served before
\* any decode has set a gauge reports 0 for all three.
C12_GaugesZeroBeforeDecode ==
    Scraped =>
        /\ GaugeNames \subseteq DOMAIN scrape
        /\ (cyclesOK = 0 /\ cyclePc \notin {"hum", "pres"} /\ ~Succeeding)
              => ScrapedGauges = <<0, 0, 0>>

\* C12 witness: a scrape is served while the initial cycle is still scanning.
C12_Witness ==
    /\ Scraped
    /\ mainPc = "initial" /\ cyclePc = "scan"
    /\ scrape["temperature"] = 0

\* C13: once the callback has captured a qualifying advertisement, nothing
\* delivered later in the same scan changes the buffer.
C13_FirstMatchKept ==
    [][(cyclePc = "scan" /\ captured # <<>>) => buf' = buf]_vars

\* the scan result handled by the latest step meets both conditions of the
\* filtering policy
DeliveredQualifies(d) == Contains(d.seen.name, Marker) /\ d.seen.hasData

\* the gauge values a complete decode of buffer b publishes
Decoded(b) == <<5 * U16(b, 1), 25 * U16(b, 3), U16(b, 5) + 50000>>

\* C14: a scan result whose name lacks the marker or whose manufacturer data
\* has no entry under 1177 causes no stop request, leaves the captured buffer
\* as it was, and the scan keeps running.
C14_NonQualifyingIgnored ==
    [][(delivered' # NoDevice /\ ~DeliveredQualifies(delivered'))
          => /\ delivered'.stop = "none"
             /\ buf' = buf /\ captured' = captured
             /\ stopScanErr' = stopScanErr
             /\ stopRequested' = stopRequested
             /\ cyclePc = "scan" /\ cyclePc' = "scan"]_vars

\* C14 witness: a device named Ruuvi without data under 1177 was delivered and
\* ignored, the scan still running.
C14_Witness ==
    /\ delivered # NoDevice
    /\ Contains(delivered.seen.name, Marker) /\ ~delivered.seen.hasData
    /\ delivered.stop = "none"
    /\ cyclePc = "scan"

\* C15 as stated: a cycle in which a stop request failed returns the stop
\* error, and never reaches the decoder or changes a gauge.
C15_StopFailureEndsWithStopErr ==
    /\ stopFailed => cyclePc \in {"scan", "ret"} /\ Gauges = gaugesAtStart
    /\ (Returning /\ stopFailed) => err = ErrStopScan
    /\ (Returning /\ err = ErrScan) =>
          Gauges = gaugesAtStart /\ t = 0 /\ h = 0 /\ p = 0

\* C15 amended: after a failed stop request the decoder is never called and
\* no gauge changes, also when a later stop request succeeds; the cycle
\* returns the stop error, or the scan error when adapter.Scan itself returns
\* one.  A scan error (at start or later) returns without calling the decoder.
C15_StopFailureDiscardsMatch ==
    /\ stopFailed =>
          /\ cyclePc \in {"scan", "ret"}
          /\ Gauges = gaugesAtStart
          /\ t = 0 /\ h = 0 /\ p = 0
    /\ (Returning /\ stopFailed) => err \in {ErrStopScan, ErrScan}
    /\ (Returning /\ err = ErrScan) =>
          Gauges = gaugesAtStart /\ t = 0 /\ h = 0 /\ p = 0

\* C15 witness: a stop request failed, a later one succeeded, adapter.Scan
\* returned nil and the cycle returns the stop error.
C15_Witness ==
    /\ Returning /\ err = ErrStopScan
    /\ stopFailed /\ stopRequested
    /\ Gauges = gaugesAtStart

\* C16: while and after the decoder runs, gauges, counters and the duration
\* histogram are as they were before the call.
C16_DecoderLeavesMetrics ==
    DecoderCalled =>
        /\ Gauges = gaugesAtStart
        /\ numMeasurements = 0 /\ numMeasurementsErrs = 0
        /\ measureTime = cyclesOK + cyclesFailed

\* C17: a running scan ends only by an adapter error or after a stop request
\* succeeded, and a stop request is made only for a qualifying result; while
\* the scan runs the cycle's duration is not observed and no later cycle has
\* started, whatever ticks arrive.
C17_ScanWaitUnbounded ==
    /\ [](cyclePc = "scan" =>
             /\ inProgress = 1
             /\ measureTime = started - 1
             /\ cyclesOK + cyclesFailed = started - 1)
    /\ [][(cyclePc = "scan" /\ cyclePc' # "scan")
             => \/ cyclePc' = "ret" /\ err' = ErrScan
                \/ stopRequested]_vars
    /\ [][(~stopRequested /\ stopRequested')
             => /\ delivered' # NoDevice
                /\ DeliveredQualifies(delivered')
                /\ delivered'.stop = "ok"]_vars

\* C17 witness: in the ticker loop a scan is still waiting after a
\* non-qualifying result, with no match so far and a tick pending.
C17_Witness ==
    /\ cyclePc = "scan" /\ captured = <<>>
    /\ delivered # NoDevice /\ delivered.stop = "none"
    /\ tickPending
    /\ started = cyclesOK + cyclesFailed + 1

\* C18 as stated: the gauge triple of every scrape is the triple of one
\* decoded advertisement: the one published before the running cycle, or the
\* one the running cycle has just decoded completely.
C18_ScrapeConsistent ==
    Scraped =>
        \/ ScrapedGauges = gaugesAtStart
        \/ Succeeding /\ ScrapedGauges = Decoded(buf)

\* the gauges kept their values while the response was gathered
Undisturbed ==
    /\ reading # NoScrape
    /\ \A m \in GaugeNames : Cardinality(reading[m]) = 1

\* C18 amended: a scrape sees the triple of one decoded advertisement when no
\* gauge changed while its response was gathered and no decode is between its
\* first and last gauge Set when it is served; any other scrape can combine
\* values of different advertisements, each gauge showing one of the values
\* it held while the response was gathered.
C18_ScrapeConsistentOutsideDecode ==
    [][(scrape' # NoScrape /\ Undisturbed /\ cyclePc \notin {"hum", "pres"})
          => \/ ScrapedGauges' = gaugesAtStart
             \/ Succeeding /\ ScrapedGauges' = Decoded(buf)]_vars

\* C18 witness: a scrape gathered during a decode shows the temperature of
\* the previous successful cycle with the humidity and pressure of the
\* advertisement just decoded.
C18_Witness ==
    /\ Scraped /\ Succeeding
    /\ cyclesOK >= 1
    /\ ScrapedGauges[1] = gaugesAtStart[1]
    /\ ScrapedGauges[1] # Decoded(buf)[1]
    /\ ScrapedGauges[2] = Decoded(buf)[2]
    /\ ScrapedGauges[2] # gaugesAtStart[2]
    /\ ScrapedGauges[3] = Decoded(buf)[3]
    /\ ScrapedGauges[3] # gaugesAtStart[3]

\* C19: the buffer passed to the decoder has 32 bytes, the captured payload
\* followed by zeros or cut to 32 bytes; a cycle starts scanning with an
\* all-zero buffer, so nothing of an earlier cycle is left in it and bytes
\* 0..6 exist.
C19_DecoderBufferFresh ==
    /\ (cyclePc = "scan" /\ captured = <<>>) =>
          \A i \in 1..BufLen : buf[i] = 0
    /\ (cyclePc = "parse" \/ DecoderCalled) =>
          /\ Len(buf) = BufLen /\ Len(buf) >= 7
          /\ captured # <<>>
          /\ \A i \in 1..BufLen : i > captured[1] => buf[i] = 0

\* C20: the gauges change only in a cycle's decode, only for a buffer whose
\* byte 0 is 5, and a cycle that returns with a changed gauge returns success
\* with all three gauges set from that buffer.
C20_GaugeChangeImpliesSuccess ==
    /\ cyclePc \in {"idle", "scan", "parse", "returned"} =>
          Gauges = gaugesAtStart
    /\ cyclePc \in {"hum", "pres"} => buf[1] = FormatV5
    /\ (Returning /\ Gauges # gaugesAtStart) =>
          /\ err = ErrNil
          /\ buf[1] = FormatV5
          /\ Gauges = Decoded(buf)

\* C20 witness: a cycle returns success having replaced the reading of an
\* earlier cycle.
C20_Witness ==
    /\ Succeeding
    /\ cyclesOK >= 1
    /\ Gauges # gaugesAtStart
    /\ gaugesAtStart # <<0, 0, 0>>
====
